---- MODULE Spec2Model ----
(***************************************************************************)
(* A model of kurzhozen's App (src/src/app.rs): the line buffer filled by  *)
(* read_input, the (Mode, Key) dispatch of iterate_over_keys, and redraw   *)
(* with its regex highlighting, row arithmetic and footer.                 *)
(*                                                                         *)
(* Text is modelled as sequences of one-character strings.  Rows and the   *)
(* footer padding keep the behaviour of the Rust integer types: an         *)
(* overflowing subtraction panics in a debug build and wraps in a release  *)
(* build; `build` is fixed for a run.                                      *)
(***************************************************************************)
EXTENDS Integers, Sequences, FiniteSets, TLC

\* ---------------------------------------------------------------- bounds
MaxLines  == 3      \* lines in the input stream
MaxQuery  == 2      \* characters the model lets the user type into query
MaxHeight == 2      \* terminal heights 1..MaxHeight

\* Terminal widths returned by terminal_size(): too narrow for any footer,
\* and just wide enough for the footer of the longest query.
Widths  == {5, MaxQuery + 7}
Heights == 1..MaxHeight

U16 == 65536        \* number of values of the u16 row

NL == "\n"

\* ------------------------------------------------------------ text helpers
RECURSIVE Flatten(_)
Flatten(ss) == IF ss = <<>> THEN <<>> ELSE Head(ss) \o Flatten(Tail(ss))

Last(s) == s[Len(s)]
Front(s) == SubSeq(s, 1, Len(s) - 1)

\* All sequences over S of length at most n.
RECURSIVE SeqsUpTo(_, _)
SeqsUpTo(S, n) ==
    IF n = 0 THEN {<<>>}
    ELSE LET shorter == SeqsUpTo(S, n - 1)
         IN  shorter \cup {Append(s, x) : s \in shorter, x \in S}

\* --------------------------------------------------------------- the input
\* Lines of the input stream, each with its terminator, and a last line
\* the stream may end with before any terminator.
FullLines == { <<"a", "b", "a", NL>>, <<"b", NL>> }
OpenLines == { <<>>, <<"b", "a">> }

LineCount(text) ==
    Cardinality({i \in 1..Len(text) : text[i] = NL})
      + (IF text # <<>> /\ Last(text) # NL THEN 1 ELSE 0)

Streams ==
    { st \in { Flatten(ls) \o t : ls \in SeqsUpTo(FullLines, MaxLines),
                                  t \in OpenLines } :
        LineCount(st) <= MaxLines }

\* BufRead::read_line: everything up to and including the first "\n", or
\* the rest of the stream when there is none; <<>> (n = 0) at end of input.
read_line(inp) ==
    IF \E i \in 1..Len(inp) : inp[i] = NL
    THEN LET k == CHOOSE i \in 1..Len(inp) :
                     inp[i] = NL /\ \A j \in 1..(i - 1) : inp[j] # NL
         IN  SubSeq(inp, 1, k)
    ELSE inp

\* Vec::push on raw_buffer.
PushFront(buf, line) == <<line>> \o buf
Push(buf, line) == Append(buf, line)

\* ------------------------------------------------------------------- keys
\* termion::event::Key values the key-event source delivers.  Characters are
\* a literal, the group opener (a query holding it does not compile), the
\* key that enters Search mode, and Enter.
CtrlC     == <<"Ctrl", "c">>
Backspace == <<"Backspace">>
Esc       == <<"Esc">>
Left      == <<"Left">>
Char(c)   == <<"Char", c>>
QueryChars == {"a", "(", "/"}
Keys == {CtrlC, Backspace, Esc, Left, Char(NL)} \cup {Char(c) : c \in QueryChars}

\* Mode and its Display (the Debug name).
Modes == {"Normal", "Search"}
ModeName(m) ==
    IF m = "Normal" THEN <<"N", "o", "r", "m", "a", "l">>
                    ELSE <<"S", "e", "a", "r", "c", "h">>

\* ------------------------------------------------------------------ regex
\* format!(r"(.*)(?P<m>{})(.*)", regex): the pattern as a token sequence.
Pattern(q) == <<"(", ".*", ")", "(", "?P<m>">> \o q \o <<")", "(", ".*", ")">>

\* Regex::new succeeds iff the groups of the pattern are balanced (the only
\* syntax error the modelled characters can produce).
RECURSIVE Balanced(_, _)
Balanced(p, depth) ==
    IF p = <<>> THEN depth = 0
    ELSE IF Head(p) = "(" THEN Balanced(Tail(p), depth + 1)
    ELSE IF Head(p) = ")" THEN depth > 0 /\ Balanced(Tail(p), depth - 1)
    ELSE Balanced(Tail(p), depth)

Compiles(q) == Balanced(Pattern(q), 0)

\* End of the run of non-"\n" characters that starts at offset s (0-based):
\* `.` does not match the line terminator.
DotEnd(text, s) ==
    IF \E j \in (s + 1)..Len(text) : text[j] = NL
    THEN (CHOOSE j \in (s + 1)..Len(text) :
              text[j] = NL /\ \A k \in (s + 1)..(j - 1) : text[k] # NL) - 1
    ELSE Len(text)

\* Offsets p in s..e at which the literal q occurs inside text[s..e).
Occurrences(text, q, s, e) ==
    { p \in s..(e - Len(q)) : SubSeq(text, p + 1, p + Len(q)) = q }

Max(S) == CHOOSE x \in S : \A y \in S : y <= x
Min(S) == CHOOSE x \in S : \A y \in S : x <= y

\* The match of (.*)(?P<m>q)(.*) that starts at offset s, for a compiled q
\* (a literal): the first group is greedy, so m is the LAST occurrence of q
\* before the line terminator, and the third group runs to the terminator.
MatchAt(text, q, s) ==
    LET e == DotEnd(text, s)
        p == Max(Occurrences(text, q, s, e))
    IN  [s |-> s, e |-> e,
         c1 |-> SubSeq(text, s + 1, p),
         c2 |-> q,
         c3 |-> SubSeq(text, p + Len(q) + 1, e)]

\* Offsets at or after `from` where a match starts.
MatchStarts(text, q, from) ==
    { s \in from..Len(text) : Occurrences(text, q, s, DotEnd(text, s)) # {} }

\* Regex::is_match.
is_match(q, line) == MatchStarts(line, q, 0) # {}

\* Regex::captures_iter: successive leftmost matches; an empty match right
\* after the previous match is skipped (last_match = -1 stands for None).
\* captures_after continues after the match m, first_start takes the
\* leftmost of the starts found.
RECURSIVE captures_from(_, _, _, _)
captures_after(text, q, m, last_match) ==
    IF m.s = m.e
    THEN IF m.e = last_match
         THEN captures_from(text, q, m.e + 1, last_match)
         ELSE <<m>> \o captures_from(text, q, m.e + 1, m.e)
    ELSE <<m>> \o captures_from(text, q, m.e, m.e)

first_start(starts, text, q, last_match) ==
    IF starts = {} THEN <<>>
    ELSE captures_after(text, q, MatchAt(text, q, Min(starts)), last_match)

captures_from(text, q, last_end, last_match) ==
    IF last_end > Len(text) THEN <<>>
    ELSE first_start(MatchStarts(text, q, last_end), text, q, last_match)

captures_iter(q, line) == captures_from(line, q, 0, -1)

\* ----------------------------------------------------------------- footer
Spaces(n) == [i \in 1..n |-> " "]

\* App::footer.  The padding length is a usize subtraction: when it would be
\* negative a debug build panics on the subtraction (cause "footer"); a
\* release build wraps it to a length near 2^64, and vec![' '; n] then
\* panics with a capacity overflow (cause "footer" as well).
footer(q, m, width) ==
    LET pad == width - Len(q) - Len(ModeName(m)) - 1
    IN  IF pad < 0
        THEN [st |-> "panic", text |-> <<>>]
        ELSE [st |-> "ok", text |-> q \o Spaces(pad) \o ModeName(m)]

\* ------------------------------------------------------------------- rows
\* height - i as u16, on u16: the subtraction overflows when i > height.
RowOverflows(h, i) == (i % U16) > h
Row(h, i) == (h + U16 - (i % U16)) % U16

\* The footer is written at Goto(1, height).
FooterRow(h) == h

\* One write! to the output.  A matched write is
\*   Goto(1,row) cap[1] Fg(Red) cap[2] Fg(Reset) cap[3]
\* and an unmatched one is   Goto(1,row) line .
\* `off` is the offset i of the line from the newest one, `hl` says that the
\* write carries the colour toggles around `m`.
MatchedWrite(row, off, cap) ==
    [row |-> row, off |-> off, hl |-> TRUE,
     pre |-> cap.c1, m |-> cap.c2, post |-> cap.c3]
PlainWrite(row, off, line) ==
    [row |-> row, off |-> off, hl |-> FALSE,
     pre |-> line, m |-> <<>>, post |-> <<>>]

MatchedWrites(row, off, caps) ==
    [k \in 1..Len(caps) |-> MatchedWrite(row, off, caps[k])]

\* Failures of the collaborators a redraw can meet, in the order it meets
\* them; "write" carries the offset of the line whose write fails (the
\* newest line or the one before it).
NoFail == [at |-> "none", i |-> 0]
Fails ==
    {[at |-> p, i |-> 0] :
        p \in {"none", "size", "clear", "flush1", "flush2", "wfooter", "flush3"}}
    \cup {[at |-> "write", i |-> k] : k \in 0..1}

\* Regex::new(&regex) for the query, as what the redraw uses of it: whether
\* the pattern compiled and, if so, what is_match and captures_iter return
\* for each line of the buffer (on[k] for buf[k]).
RECURSIVE regex_on(_, _)
regex_on(q, buf) ==
    IF buf = <<>> THEN <<>>
    ELSE <<[is_match |-> is_match(q, Head(buf)),
            captures |-> captures_iter(q, Head(buf))]>> \o regex_on(q, Tail(buf))

Regex_new(q, buf) ==
    IF Compiles(q) THEN [ok |-> TRUE, on |-> regex_on(q, buf)]
                   ELSE [ok |-> FALSE, on |-> <<>>]

\* The loop of redraw over raw_buffer.iter().rev().enumerate(), from offset i
\* with the writes made so far; re is the compiled regex.
RECURSIVE draw_lines(_, _, _, _, _, _, _)
draw_lines(buf, re, h, bld, fail, i, acc) ==
    IF i >= Len(buf) THEN [st |-> "ok", cause |-> "none", body |-> acc]
    ELSE
      IF re.on[Len(buf) - i].is_match
      THEN IF i >= h
           THEN [st |-> "ok", cause |-> "none", body |-> acc]       \* break
           ELSE IF fail = [at |-> "write", i |-> i]
           THEN [st |-> "err", cause |-> "write", body |-> acc]     \* ?
           ELSE draw_lines(buf, re, h, bld, fail, i + 1,
                           acc \o MatchedWrites(Row(h, i), i, re.on[Len(buf) - i].captures))
      ELSE IF RowOverflows(h, i) /\ bld = "debug"
           THEN [st |-> "panic", cause |-> "row", body |-> acc]
           ELSE IF fail = [at |-> "write", i |-> i]
           THEN [st |-> "panic", cause |-> "write", body |-> acc]   \* unwrap
           ELSE draw_lines(buf, re, h, bld, fail, i + 1,
                           Append(acc, PlainWrite(Row(h, i), i, buf[Len(buf) - i])))

\* App::redraw.  Result: how it ended (ok, err = Err returned through `?`,
\* panic = unwrap/overflow), why, the writes of the body and the footer
\* written (<<>> when the footer was not reached).
Out(st, cause, body, foot) ==
    [st |-> st, cause |-> cause, body |-> body, footer |-> foot]

after_footer(f, body, fail) ==
    IF f.st # "ok" THEN Out("panic", "footer", body, <<>>)
    ELSE IF fail.at = "wfooter" THEN Out("err", "wfooter", body, <<>>)
    ELSE IF fail.at = "flush3" THEN Out("err", "flush", body, f.text)
    ELSE Out("ok", "none", body, f.text)

after_body(d, q, m, w, fail) ==
    IF d.st # "ok" THEN Out(d.st, d.cause, d.body, <<>>)
    ELSE IF fail.at = "flush2" THEN Out("panic", "flush", d.body, <<>>)
    ELSE after_footer(footer(q, m, w), d.body, fail)

redraw(buf, re, q, m, w, h, bld, fail) ==
    IF fail.at = "size" THEN Out("panic", "size", <<>>, <<>>)
    ELSE IF fail.at = "clear" THEN Out("err", "clear", <<>>, <<>>)
    ELSE IF fail.at = "flush1" THEN Out("err", "flush", <<>>, <<>>)
    ELSE IF ~re.ok THEN Out("panic", "regex", <<>>, <<>>)
    ELSE after_body(draw_lines(buf, re, h, bld, fail, 0, <<>>), q, m, w, fail)

\* ------------------------------------------------------------------ state
VARIABLES
    stream,      \* the whole input stream (fixed for a run)
    input,       \* what read_input has not read yet
    raw_buffer,  \* App.raw_buffer
    query,       \* App.query
    mode,        \* App.mode
    build,       \* "debug" or "release": what integer overflow does
    pc,          \* "ingest" (read_input), "keys" (iterate_over_keys), "done"
    result,      \* "running", or how start() ended: "Ok", "Err", "panic"
    cause,       \* why it ended
    lastKey,     \* the key received last, <<>> before the first
    prev,        \* mode and query when that key was received
    redraws,     \* redraws performed by the last step
    screen       \* geometry and output of the last redraw

vars == <<stream, input, raw_buffer, query, mode, build, pc, result, cause,
          lastKey, prev, redraws, screen>>

NoScreen == [w |-> 0, h |-> 0, st |-> "none", cause |-> "none",
             body |-> <<>>, footer |-> <<>>]

\* App::new, before start().
Init ==
    /\ stream \in Streams
    /\ input = stream
    /\ raw_buffer = <<>>
    /\ query = <<>>
    /\ mode = "Normal"
    /\ build \in {"debug", "release"}
    /\ pc = "ingest"
    /\ result = "running"
    /\ cause = "none"
    /\ lastKey = <<>>
    /\ prev = [mode |-> "Normal", query |-> <<>>]
    /\ redraws = 0
    /\ screen = NoScreen

\* self.redraw()? in either loop, for the buffer, query and mode the caller
\* has just set: terminal_size() is read afresh, the collaborators may fail,
\* and anything but Ok(()) ends start().  (The regex and the redraw are
\* bound by \E over a singleton so that each is evaluated once.)
Redrawn(buf, q, m) ==
    \E re \in {Regex_new(q, buf)} :
      \E w \in Widths, h \in Heights, f \in Fails :
        \E r \in {redraw(buf, re, q, m, w, h, build, f)} :
        /\ screen' = [w |-> w, h |-> h, st |-> r.st, cause |-> r.cause,
                      body |-> r.body, footer |-> r.footer]
        /\ redraws' = 1
        /\ IF r.st = "ok"
           THEN UNCHANGED <<pc, result, cause>>
           ELSE /\ pc' = "done"
                /\ result' = (IF r.st = "err" THEN "Err" ELSE "panic")
                /\ cause' = r.cause

NotRedrawn == redraws' = 0 /\ UNCHANGED screen

\* ------------------------------------------------------------- read_input
\* One turn of the loop with n > 0: push the line, redraw.
ReadLine ==
    /\ pc = "ingest"
    /\ read_line(input) # <<>>
    /\ LET line == read_line(input) IN
        /\ input' = SubSeq(input, Len(line) + 1, Len(input))
        /\ raw_buffer' = Push(raw_buffer, line)
        /\ Redrawn(Push(raw_buffer, line), query, mode)
    /\ UNCHANGED <<stream, query, mode, build, lastKey, prev>>

\* n == 0: read_input returns Ok(()) and start() goes on to the keys.
ReadEof ==
    /\ pc = "ingest"
    /\ read_line(input) = <<>>
    /\ pc' = "keys"
    /\ NotRedrawn
    /\ UNCHANGED <<stream, input, raw_buffer, query, mode, build, result,
                   cause, lastKey, prev>>

\* read_line fails: .expect("Failed to read input") panics.
ReadFail ==
    /\ pc = "ingest"
    /\ pc' = "done"
    /\ result' = "panic"
    /\ cause' = "read"
    /\ NotRedrawn
    /\ UNCHANGED <<stream, input, raw_buffer, query, mode, build, lastKey, prev>>

\* ------------------------------------------------------ iterate_over_keys
Received(key) ==
    /\ pc = "keys"
    /\ lastKey' = key
    /\ prev' = [mode |-> mode, query |-> query]
    /\ UNCHANGED <<stream, input, raw_buffer, build>>

\* (_, Key::Ctrl('c')) => return Ok(())
KeyCtrlCNormalOnly ==
    /\ Received(CtrlC)
    /\ IF mode = "Normal"
       THEN pc' = "done" /\ result' = "Ok"
       ELSE UNCHANGED <<pc, result>>
    /\ NotRedrawn
    /\ UNCHANGED <<query, mode, cause>>
KeyCtrlC ==
    /\ Received(CtrlC)
    /\ pc' = "done"
    /\ result' = "Ok"
    /\ NotRedrawn
    /\ UNCHANGED <<query, mode, cause>>

\* (Mode::Normal, Key::Char('/')) => mode = Search
KeySlash ==
    /\ mode = "Normal"
    /\ Received(Char("/"))
    /\ mode' = "Search"
    /\ NotRedrawn
    /\ UNCHANGED <<query, pc, result, cause>>

\* (Mode::Search, Key::Char('\n')) => {}
KeyEnter ==
    /\ mode = "Search"
    /\ Received(Char(NL))
    /\ NotRedrawn
    /\ UNCHANGED <<query, mode, pc, result, cause>>

\* Vec::pop: removes the last element, nothing on an empty vector.
pop(q) == IF q = <<>> THEN <<>> ELSE Front(q)

\* (Mode::Search, Key::Backspace) => query.pop(); redraw()?
KeyBackspace ==
    /\ mode = "Search"
    /\ Received(Backspace)
    /\ query' = pop(query)
    /\ Redrawn(raw_buffer, pop(query), mode)
    /\ UNCHANGED mode

\* (Mode::Search, Key::Char(n)) => query.push(n); redraw()?
KeyCharPrepends ==
    /\ mode = "Search"
    /\ Len(query) < MaxQuery
    /\ \E c \in QueryChars :
         /\ Received(Char(c))
         /\ query' = <<c>> \o query
         /\ Redrawn(raw_buffer, <<c>> \o query, mode)
    /\ UNCHANGED mode
KeyChar ==
    /\ mode = "Search"
    /\ Len(query) < MaxQuery
    /\ \E c \in QueryChars :
         /\ Received(Char(c))
         /\ query' = Append(query, c)
         /\ Redrawn(raw_buffer, Append(query, c), mode)
    /\ UNCHANGED mode

\* (Mode::Search, Key::Esc) => mode = Normal; query = Vec::new(); redraw()?
KeyEscKeepsQuery ==
    /\ mode = "Search"
    /\ Received(Esc)
    /\ mode' = "Normal"
    /\ Redrawn(raw_buffer, query, "Normal")
    /\ UNCHANGED query
KeyEsc ==
    /\ mode = "Search"
    /\ Received(Esc)
    /\ mode' = "Normal"
    /\ query' = <<>>
    /\ Redrawn(raw_buffer, <<>>, "Normal")

\* (_, _) => {}: every pair no arm above takes.
KeyOtherRedraws ==
    /\ \E key \in Keys :
         /\ key # CtrlC
         /\ mode = "Normal" => key # Char("/")
         /\ mode = "Search" => key \in {Left}
         /\ Received(key)
    /\ Redrawn(raw_buffer, query, mode)
    /\ UNCHANGED <<query, mode>>
KeyOther ==
    /\ \E key \in Keys :
         /\ key # CtrlC
         /\ mode = "Normal" => key # Char("/")
         /\ mode = "Search" => key \in {Left}
         /\ Received(key)
    /\ NotRedrawn
    /\ UNCHANGED <<query, mode, pc, result, cause>>

\* Err(e) from the channel: return Err(AppError::InputError(..))
RecvErrReturnsOk ==
    /\ pc = "keys"
    /\ pc' = "done"
    /\ result' = "Ok"
    /\ cause' = "recv"
    /\ NotRedrawn
    /\ UNCHANGED <<stream, input, raw_buffer, query, mode, build, lastKey, prev>>
RecvErr ==
    /\ pc = "keys"
    /\ pc' = "done"
    /\ result' = "Err"
    /\ cause' = "recv"
    /\ NotRedrawn
    /\ UNCHANGED <<stream, input, raw_buffer, query, mode, build, lastKey, prev>>

Next ==
    \/ ReadLine
    \/ ReadEof
    \/ ReadFail
    \/ KeyCtrlC
    \/ KeySlash
    \/ KeyEnter
    \/ KeyBackspace
    \/ KeyChar
    \/ KeyEsc
    \/ KeyOther
    \/ RecvErr

Spec == Init /\ [][Next]_vars

TypeOK ==
    /\ stream \in Streams
    /\ mode \in Modes
    /\ Len(query) <= MaxQuery
    /\ pc \in {"ingest", "keys", "done"}
    /\ result \in {"running", "Ok", "Err", "panic"}
    /\ redraws \in {0, 1}
    /\ lastKey \in Keys \cup {<<>>}

\* ------------------------------------------------- vocabulary of the claims
\* Causes of an end of start() that are failures of a collaborator (the
\* terminal, the output, the input stream, the key channel), as opposed to
\* the program's own arithmetic and pattern handling.
IOCauses == {"size", "clear", "flush", "write", "wfooter", "read", "recv"}

\* The last step redrew and no collaborator failed in that redraw.
RedrewNoIOFailure == redraws = 1 /\ screen.cause \notin IOCauses

\* Offsets (0 = newest) of the buffer lines the last redraw wrote.
DrawnOffsets == {screen.body[k].off : k \in 1..Len(screen.body)}

\* The buffer line at offset o from the newest.
LineAt(o) == raw_buffer[Len(raw_buffer) - o]

\* The writes of the last redraw for the line at offset o, in order.
WritesFor(o) == SelectSeq(screen.body, LAMBDA wr : wr.off = o)

\* Offsets of the non-overlapping occurrences of q in text at or after
\* `from`, left to right.
RECURSIVE OccurrencesLtoR(_, _, _)
OccurrencesLtoR(text, q, from) ==
    LET ps == {p \in from..(Len(text) - Len(q)) : SubSeq(text, p + 1, p + Len(q)) = q}
    IN  IF q = <<>> \/ ps = {} THEN <<>>
        ELSE <<Min(ps)>> \o OccurrencesLtoR(text, q, Min(ps) + Len(q))

\* A text cut at its line terminators, each piece keeping its terminator.
RECURSIVE SplitLines(_, _)
SplitLines(text, cur) ==
    IF text = <<>> THEN (IF cur = <<>> THEN <<>> ELSE <<cur>>)
    ELSE IF Head(text) = NL
         THEN <<Append(cur, NL)>> \o SplitLines(Tail(text), <<>>)
         ELSE SplitLines(Tail(text), Append(cur, Head(text)))

\* ------------------------------------------------------------------ claims

\* C1: whatever the width, query and mode, also when
\* len(Query) + len(ModeName) + 1 > width, building the footer neither
\* underflows nor panics, and the footer written is at most width long.
C1_FooterNeverPanics ==
    redraws = 1 => (screen.cause # "footer" /\ Len(screen.footer) <= screen.w)

\* C2: a redraw with a query that does not compile does not abort the
\* program and returns no fatal error: every line it draws is drawn as "no
\* match" and the event loop keeps accepting keys.
C2_InvalidQueryAbsorbed ==
    (RedrewNoIOFailure /\ ~Compiles(query)) =>
        /\ result = "running"
        /\ pc = "keys"
        /\ \A k \in 1..Len(screen.body) : ~screen.body[k].hl

\* C3: a redraw that completes has drawn at most `height` buffer lines, the
\* query matching them or not, and with a non-empty buffer it has drawn the
\* newest line at row = height.
C3_AtMostHeightLines ==
    (redraws = 1 /\ screen.st = "ok") =>
        /\ Cardinality(DrawnOffsets) <= screen.h
        /\ raw_buffer # <<>> =>
               \E k \in 1..Len(screen.body) :
                   screen.body[k].off = 0 /\ screen.body[k].row = screen.h

\* C4: with an empty query every line a completed redraw displays is written
\* verbatim at its row, in one write without highlight toggles.
C4_EmptyQueryVerbatim ==
    (redraws = 1 /\ screen.st = "ok" /\ query = <<>>) =>
        \A k \in 1..Len(screen.body) :
            /\ ~screen.body[k].hl
            /\ screen.body[k].pre = LineAt(screen.body[k].off)

\* C5: for a non-empty query that compiles, each line a completed redraw
\* displays and that holds the query is written as one (prefix, matched,
\* suffix) segment per non-overlapping occurrence of the query, left to
\* right, the first occurrence being the first one highlighted.
C5_EveryOccurrenceHighlighted ==
    (redraws = 1 /\ screen.st = "ok" /\ query # <<>> /\ Compiles(query)) =>
        \A o \in DrawnOffsets :
            LET occ == OccurrencesLtoR(LineAt(o), query, 0)
                ws  == WritesFor(o)
            IN  occ # <<>> =>
                  /\ Len(ws) = Len(occ)
                  /\ \A k \in 1..Len(ws) : ws[k].hl /\ ws[k].m = query
                  /\ Len(ws[1].pre) = occ[1]

\* C6: in every reachable state the query is non-empty only in Search mode;
\* every state entered with mode Normal has an empty query.
C6_QueryOnlyInSearch == mode = "Normal" => query = <<>>

\* A state right after Escape left Search mode with a non-empty query.
C6_Witness ==
    /\ lastKey = Esc
    /\ prev.mode = "Search"
    /\ prev.query # <<>>
    /\ mode = "Normal"
    /\ query = <<>>

\* C7: after an Escape key is handled the query is empty and the mode is
\* Normal; pressed in Search mode (and the terminal and output not failing)
\* it is followed by exactly one redraw, whose footer shows Normal and which
\* highlights no text.
C7_EscapeRedrawsNormal ==
    lastKey = Esc =>
        /\ query = <<>>
        /\ mode = "Normal"
        /\ (prev.mode = "Search" /\ screen.cause \notin IOCauses) =>
              /\ redraws = 1
              /\ screen.st = "ok"
              /\ Len(screen.footer) >= 6
              /\ SubSeq(screen.footer, Len(screen.footer) - 5, Len(screen.footer))
                     = ModeName("Normal")
              /\ \A k \in 1..Len(screen.body) : screen.body[k].m = <<>>

\* C8: start() has returned success exactly when the key received last is
\* the interrupt Ctrl-C; the interrupt ends the loop in Normal and in Search
\* mode, with any query, leaving mode and query as they were and without a
\* redraw.
C8_SuccessIffInterrupt ==
    /\ result = "Ok" <=> lastKey = CtrlC
    /\ lastKey = CtrlC =>
          /\ pc = "done"
          /\ redraws = 0
          /\ mode = prev.mode
          /\ query = prev.query

\* An interrupt received in Search mode with a non-empty query.
C8_Witness ==
    /\ lastKey = CtrlC
    /\ prev.mode = "Search"
    /\ prev.query # <<>>
    /\ result = "Ok"

\* C9: Backspace in Search mode removes exactly the last character of a
\* non-empty query and leaves an empty query empty; the mode stays Search,
\* one redraw is performed and (the terminal and output not failing) no
\* error is raised.
C9_BackspacePops ==
    (lastKey = Backspace /\ prev.mode = "Search") =>
        /\ prev.query # <<>> => Append(query, Last(prev.query)) = prev.query
        /\ prev.query = <<>> => query = <<>>
        /\ mode = "Search"
        /\ redraws = 1
        /\ screen.cause \notin IOCauses => result = "running"

\* C10: the buffer holds, in arrival order, exactly the lines read so far
\* from the stream, none dropped or reordered; it only grows, and only while
\* read_input runs: no key event or redraw of the interactive phase changes
\* it.
C10_BufferArrivalOrder ==
    /\ [](raw_buffer =
            SplitLines(SubSeq(stream, 1, Len(stream) - Len(input)), <<>>))
    /\ [][/\ Len(raw_buffer') >= Len(raw_buffer)
          /\ pc # "ingest" => raw_buffer' = raw_buffer]_vars

\* The interactive phase after a key that redrew, the buffer holding two
\* different lines.
C10_Witness ==
    /\ pc = "keys"
    /\ redraws = 1
    /\ lastKey # <<>>
    /\ Len(raw_buffer) >= 2
    /\ raw_buffer[1] # raw_buffer[2]

\* C11: whenever reading the geometry, a write or a flush fails at any step
\* of a redraw, the redraw stops and the failure comes back as an Err that
\* ends the loop; the program is not aborted.
C11_OutputFailureReturned ==
    (redraws = 1 /\ screen.cause \in {"size", "clear", "flush", "write", "wfooter"}) =>
        /\ screen.st = "err"
        /\ result = "Err"
        /\ pc = "done"

\* C12: when the input stream fails during ingestion, start() returns an
\* error to the caller instead of aborting, and no key is ever received.
C12_ReadFailureReturned ==
    cause = "read" => (result = "Err" /\ pc = "done" /\ lastKey = <<>>)

\* C13: when the key-event source fails while the loop waits for a key, the
\* loop ends at once with the InputError (result Err, cause recv), in either
\* mode, with no retry and no redraw, mode, query and screen left as they
\* were.
C13_RecvFailureEndsLoop ==
    /\ [](cause = "recv" => (result = "Err" /\ pc = "done"))
    /\ [][(cause' = "recv" /\ cause # "recv") =>
             /\ pc = "keys"
             /\ result' = "Err"
             /\ pc' = "done"
             /\ redraws' = 0
             /\ UNCHANGED <<mode, query, raw_buffer, screen>>]_vars

\* The key-event source failed in Search mode with a non-empty query.
C13_Witness ==
    /\ cause = "recv"
    /\ pc = "done"
    /\ mode = "Search"
    /\ query # <<>>

\* A step of the interactive loop that received a key (and not a failure of
\* the key-event source); the key is lastKey'.
KeyStep == pc = "keys" /\ cause' # "recv"

\* The (mode, key) pairs the transition table does not list.
Unlisted(m, key) ==
    /\ key # CtrlC
    /\ m = "Normal" => key # Char("/")
    /\ m = "Search" => key \notin {Backspace, Esc} /\ key[1] # "Char"

\* C14: a key the transition table does not list for the current mode
\* leaves mode, query and buffer unchanged, performs no redraw, raises no
\* error and keeps the loop running.
C14_UnlistedKeyIsNoOp ==
    [][(KeyStep /\ Unlisted(mode, lastKey')) =>
          /\ UNCHANGED <<mode, query, raw_buffer, screen>>
          /\ redraws' = 0
          /\ result' = "running"
          /\ pc' = "keys"]_vars

\* An unlisted key (Left) was received in Search mode with a non-empty
\* query and a non-empty buffer.
C14_Witness ==
    /\ pc = "keys"
    /\ redraws = 0
    /\ lastKey = Left
    /\ prev.mode = "Search"
    /\ prev.query # <<>>
    /\ mode = "Search"
    /\ query = prev.query
    /\ raw_buffer # <<>>

\* C15: in Search mode a character key other than Enter, `/` included,
\* appends exactly that character at the end of the query, keeps the mode
\* and triggers one redraw; Enter changes neither query nor mode; and no
\* step changes the query except by appending one character, removing the
\* last one, or emptying it while leaving Search mode.
C15_QueryEditedAtTheEnd ==
    [][/\ (KeyStep /\ mode = "Search" /\ lastKey' \in {Char(c) : c \in QueryChars}) =>
            /\ query' = Append(query, lastKey'[2])
            /\ mode' = "Search"
            /\ redraws' = 1
       /\ (KeyStep /\ mode = "Search" /\ lastKey' = Char(NL)) =>
            UNCHANGED <<query, mode>>
       /\ query' # query =>
            \/ Len(query') = Len(query) + 1 /\ Front(query') = query
            \/ query # <<>> /\ query' = Front(query)
            \/ query' = <<>> /\ mode = "Search" /\ mode' = "Normal"]_vars

\* `/` was typed in Search mode after another character.
C15_Witness ==
    /\ lastKey = Char("/")
    /\ prev.mode = "Search"
    /\ prev.query = <<"a">>
    /\ query = <<"a", "/">>
    /\ mode = "Search"
    /\ redraws = 1

\* C16: start() runs ingestion, then the keys: while read_input runs no key
\* has been received and each appended line is followed by one redraw; a
\* key is received only after the whole stream is in the buffer; and unless
\* a collaborator fails, start() does not end inside the ingestion phase, so
\* the interactive phase is entered.
C16_IngestionThenKeys ==
    /\ pc = "ingest" => lastKey = <<>>
    /\ (pc = "ingest" /\ raw_buffer # <<>>) => redraws = 1
    /\ lastKey # <<>> => (input = <<>> /\ raw_buffer = SplitLines(stream, <<>>))
    /\ (pc = "done" /\ cause \notin IOCauses) => lastKey # <<>>

\* The footer text f is the query q, then only spaces, then the name of the
\* mode m as its last characters.
ShowsFooter(f, q, m) ==
    /\ Len(f) >= Len(q) + Len(ModeName(m))
    /\ SubSeq(f, 1, Len(q)) = q
    /\ SubSeq(f, Len(f) - Len(ModeName(m)) + 1, Len(f)) = ModeName(m)
    /\ \A k \in (Len(q) + 1)..(Len(f) - Len(ModeName(m))) : f[k] = " "

\* C17: after each key event other than the interrupt has been handled, the
\* renderer has run for it, so that the footer drawn last shows the current
\* mode and the current query.
C17_FooterFollowsEveryKey ==
    (lastKey # <<>> /\ lastKey # CtrlC /\ result = "running" /\ screen.footer # <<>>) =>
        ShowsFooter(screen.footer, query, mode)

\* C18: when len(Query) + len(ModeName) + 1 <= width, the footer a redraw
\* writes is the query, then only spaces, then the mode name as its last
\* characters, and it is exactly width characters long.
C18_FooterSpansWidth ==
    (redraws = 1 /\ screen.footer # <<>>
       /\ Len(query) + Len(ModeName(mode)) + 1 <= screen.w) =>
        /\ ShowsFooter(screen.footer, query, mode)
        /\ Len(screen.footer) = screen.w

\* C19: within one redraw nothing is drawn twice on a row: two different
\* buffer lines never share a row, and the row of the footer is not the row
\* of any displayed buffer line.
C19_FooterRowIsFree ==
    (redraws = 1 /\ screen.footer # <<>>) =>
        /\ \A k \in 1..Len(screen.body) : screen.body[k].row # FooterRow(screen.h)
        /\ \A j, k \in 1..Len(screen.body) :
               screen.body[j].off # screen.body[k].off =>
                   screen.body[j].row # screen.body[k].row

\* C20: the row height - offset is computed only for offset < height, for
\* matching and non-matching lines alike: it never overflows the u16 row and
\* never is row 0, however many lines the buffer holds.
C20_RowNeverUnderflows ==
    redraws = 1 =>
        /\ screen.cause # "row"
        /\ \A k \in 1..Len(screen.body) :
               /\ screen.body[k].off < screen.h
               /\ screen.body[k].row = screen.h - screen.body[k].off
               /\ screen.body[k].row >= 1

====
